---- MODULE Spec2Model ----
(***************************************************************************)
(* A model of the tamper-evident chain demo: the express transport layer   *)
(* of src/server/app.ts (chain storage, /api/create, /api/information,     *)
(* /api/tamper) around the Verifier of ./lib.  The Verifier is a           *)
(* precompiled artifact; its Block Factory and Chain Inspector are         *)
(* modelled from sections 3, 4.1 and 4.2 of the specification.             *)
(***************************************************************************)
EXTENDS Integers, Sequences, FiniteSets, TLC

VARIABLES
    blockchain,   \* app.ts:17  let blockchain: Block[]
    information,  \* app.ts:20  let information: {data, status}[]
    verifier,     \* app.ts:14  const verifier = new Verifier(SECRET_KEY)
    clock,        \* the current time, read by the Block Factory
    res           \* the response to the last request

vars == <<blockchain, information, verifier, clock, res>>

---------------------------------------------------------------------------
(* Bounds of the model *)

MaxBlocks == 3      \* blocks created in one run

MaxClock == 1       \* the clock runs 0..MaxClock

(* Program constants *)

SECRET_KEY == "some-super-seekrit-key"

MaxDataLen == 2     \* acceptance policy: the maximum size of data

Sentinel == <<>>    \* previousHash of the genesis block

Valid == "Valid"

Tampered == "Tampered"

Recovered == "Recovered"

Status == {Recovered, Valid, Tampered}

\* Payloads a client sends to /api/create: an acceptable one, the empty one
\* and one over the size bound.
GoodData == {"a"}

BadData == {"", "aaa"}

Data == GoodData \cup BadData

\* Payloads a client sends to /api/tamper, which applies no policy.
NewData == {"a", "b"}

\* Index values a client sends to /api/tamper.
Indexes == -1 .. MaxBlocks

\* Index values that are no integer: null (what the client's
\* JSON.stringify makes of parseInt('')), a missing index and a fraction.
OddIndexes == {"null", "undefined", "0.5"}

---------------------------------------------------------------------------
(* Shared primitives *)

\* Digest(index, timestamp, data, previousHash): deterministic and
\* collision-free, modelled as the term of its fields.
Digest(index, timestamp, data, previousHash) ==
    <<index, timestamp, data, previousHash>>

\* KeyedMAC(secret, hash): a term only a holder of the secret can build.
KeyedMAC(secret, hash) == <<"mac", secret, hash>>

HashOf(b) == Digest(b.index, b.timestamp, b.data, b.previousHash)

\* A block with the given fields, hashed and signed by the verifier.
Seal(secret, index, timestamp, data, previousHash) ==
    [index        |-> index,
     timestamp    |-> timestamp,
     data         |-> data,
     previousHash |-> previousHash,
     hash         |-> Digest(index, timestamp, data, previousHash),
     signature    |-> KeyedMAC(secret,
                         Digest(index, timestamp, data, previousHash))]

Reverse(s) == [i \in 1..Len(s) |-> s[Len(s) + 1 - i]]

---------------------------------------------------------------------------
(* Block Factory *)

AcceptData(data) == Len(data) > 0 /\ Len(data) <= MaxDataLen

\* createBlock(priorBlock, data) at time now; prior is <<>> or <<block>>.
createBlock(secret, prior, data, now) ==
    IF ~AcceptData(data)
    THEN [ok |-> FALSE, error |-> "InvalidInputError"]
    ELSE [ok |-> TRUE,
          block |-> IF prior = <<>>
                    THEN Seal(secret, 0, now, data, Sentinel)
                    ELSE Seal(secret, prior[1].index + 1, now, data,
                              prior[1].hash)]

---------------------------------------------------------------------------
(* Chain Inspector *)

\* A check that compares the public digest only.
SelfIntactHashOnly(secret, b) == HashOf(b) = b.hash

SelfIntact(secret, b) ==
    /\ HashOf(b) = b.hash
    /\ KeyedMAC(secret, HashOf(b)) = b.signature

\* A repair that re-seals the block over its old previousHash.
InspectBlockStaleLink(secret, b, expectedPreviousHash) ==
    LET selfIntact == SelfIntact(secret, b)
        linkIntact == b.previousHash = expectedPreviousHash
    IN  IF selfIntact /\ linkIntact
        THEN [block |-> b, status |-> Valid]
        ELSE [block  |-> Seal(secret, b.index, b.timestamp, b.data,
                              b.previousHash),
              status |-> IF ~selfIntact THEN Tampered ELSE Recovered]

\* Step 3c: classification and repair of one block.
InspectBlock(secret, b, expectedPreviousHash) ==
    LET selfIntact == SelfIntact(secret, b)
        linkIntact == b.previousHash = expectedPreviousHash
    IN  IF selfIntact /\ linkIntact
        THEN [block |-> b, status |-> Valid]
        ELSE [block  |-> Seal(secret, b.index, b.timestamp, b.data,
                              expectedPreviousHash),
              status |-> IF ~selfIntact THEN Tampered ELSE Recovered]

\* Steps 2-4: the forward pass; the first n blocks of the chain, inspected.
RECURSIVE InspectPrefix(_, _, _)
InspectPrefix(secret, chain, n) ==
    IF n = 0 THEN <<>>
    ELSE LET done == InspectPrefix(secret, chain, n - 1)
             expectedPreviousHash ==
                 IF n = 1 THEN Sentinel ELSE done[n - 1].block.hash
         IN  Append(done, InspectBlock(secret, chain[n], expectedPreviousHash))

Malformed(chain) == \E i \in 1..Len(chain) : chain[i].index # i - 1

inspect(secret, chain) ==
    IF Malformed(chain)
    THEN [ok |-> FALSE, error |-> "MalformedChainError"]
    ELSE [ok |-> TRUE, state |-> InspectPrefix(secret, chain, Len(chain))]

---------------------------------------------------------------------------
(* The Verifier object of ./lib as app.ts calls it *)

\* verifier.create_block(data): app.ts passes the payload only, so the
\* prior block is the one the verifier minted last.
create_block(v, data, now) == createBlock(v.secret, v.prior, data, now)

\* verifier.information(blocks)
verifier_information(v, blocks) == inspect(v.secret, blocks)

---------------------------------------------------------------------------
(* The transport layer *)

NoResponse == [op |-> "none", code |-> 0, success |-> TRUE]

Init ==
    /\ blockchain = <<>>
    /\ information = <<>>
    /\ verifier = [secret |-> SECRET_KEY, prior |-> <<>>]
    /\ clock = 0
    /\ res = NoResponse

\* Time passes.
Tick ==
    /\ clock < MaxClock
    /\ clock' = clock + 1
    /\ UNCHANGED <<blockchain, information, verifier, res>>

\* A handler whose error message quotes the verifier's key.
CreateLeaksKey(data) ==
    LET r == create_block(verifier, data, clock)
    IN  /\ Len(blockchain) < MaxBlocks
        /\ IF r.ok
           THEN /\ blockchain' = Append(blockchain, r.block)
                /\ verifier' = [verifier EXCEPT !.prior = <<r.block>>]
                /\ res' = [op |-> "create", code |-> 200, success |-> TRUE,
                           block |-> r.block]
           ELSE /\ res' = [op |-> "create", code |-> 400, success |-> FALSE,
                           error |-> verifier.secret]
                /\ UNCHANGED <<blockchain, verifier>>
        /\ UNCHANGED <<information, clock>>

\* A handler that appends a block whatever the factory answers.
CreateUnchecked(data) ==
    LET r == create_block(verifier, data, clock)
        block == IF r.ok THEN r.block
                 ELSE Seal(verifier.secret, Len(blockchain), clock, data,
                           Sentinel)
    IN  /\ Len(blockchain) < MaxBlocks
        /\ blockchain' = Append(blockchain, block)
        /\ verifier' = [verifier EXCEPT !.prior = <<block>>]
        /\ res' = [op |-> "create", code |-> 200, success |-> TRUE,
                   block |-> block]
        /\ UNCHANGED <<information, clock>>

\* A handler that puts the new block in front of the stored chain.
CreateUnshift(data) ==
    LET r == create_block(verifier, data, clock)
    IN  /\ Len(blockchain) < MaxBlocks
        /\ IF r.ok
           THEN /\ blockchain' = <<r.block>> \o blockchain
                /\ verifier' = [verifier EXCEPT !.prior = <<r.block>>]
                /\ res' = [op |-> "create", code |-> 200, success |-> TRUE,
                           block |-> r.block]
           ELSE /\ res' = [op |-> "create", code |-> 400, success |-> FALSE,
                           error |-> r.error]
                /\ UNCHANGED <<blockchain, verifier>>
        /\ UNCHANGED <<information, clock>>

\* A handler that writes back a copy of the chain read before the previous
\* append: the new block takes the place of the tail.
CreateOverwritesTail(data) ==
    LET r == create_block(verifier, data, clock)
    IN  /\ Len(blockchain) < MaxBlocks
        /\ IF r.ok
           THEN /\ blockchain' =
                      IF blockchain = <<>> THEN <<r.block>>
                      ELSE [blockchain EXCEPT ![Len(blockchain)] = r.block]
                /\ verifier' = [verifier EXCEPT !.prior = <<r.block>>]
                /\ res' = [op |-> "create", code |-> 200, success |-> TRUE,
                           block |-> r.block]
           ELSE /\ res' = [op |-> "create", code |-> 400, success |-> FALSE,
                           error |-> r.error]
                /\ UNCHANGED <<blockchain, verifier>>
        /\ UNCHANGED <<information, clock>>

\* app.post('/api/create')
Create(data) ==
    LET r == create_block(verifier, data, clock)
    IN  /\ Len(blockchain) < MaxBlocks
        /\ IF r.ok
           THEN /\ blockchain' = Append(blockchain, r.block)
                /\ verifier' = [verifier EXCEPT !.prior = <<r.block>>]
                /\ res' = [op |-> "create", code |-> 200, success |-> TRUE,
                           block |-> r.block]
           ELSE /\ res' = [op |-> "create", code |-> 400, success |-> FALSE,
                           error |-> r.error]
                /\ UNCHANGED <<blockchain, verifier>>
        /\ UNCHANGED <<information, clock>>

\* A handler that answers a detected tamper with an error.
InformationRejectsTampered ==
    IF Len(blockchain) = 0
    THEN /\ res' = [op |-> "information", code |-> 404, success |-> FALSE,
                    error |-> "No blocks found"]
         /\ UNCHANGED <<blockchain, information, verifier, clock>>
    ELSE LET r == verifier_information(verifier, blockchain)
         IN  IF r.ok /\ \A i \in 1..Len(r.state) : r.state[i].status # Tampered
             THEN LET state == Reverse(r.state)
                  IN  /\ information' =
                            [i \in 1..Len(state) |->
                                [data   |-> state[i].block.data,
                                 status |-> state[i].status]]
                      /\ blockchain' =
                            [i \in 1..Len(state) |-> state[i].block]
                      /\ res' = [op |-> "information", code |-> 200,
                                 success |-> TRUE,
                                 information |-> information']
                      /\ UNCHANGED <<verifier, clock>>
             ELSE /\ res' = [op |-> "information", code |-> 400,
                             success |-> FALSE, error |-> "Tampered"]
                  /\ UNCHANGED <<blockchain, information, verifier, clock>>

\* A handler that empties the information list before it inspects.
InformationClearsFirst ==
    IF Len(blockchain) = 0
    THEN /\ res' = [op |-> "information", code |-> 404, success |-> FALSE,
                    error |-> "No blocks found"]
         /\ UNCHANGED <<blockchain, information, verifier, clock>>
    ELSE LET r == verifier_information(verifier, blockchain)
         IN  IF r.ok
             THEN LET state == Reverse(r.state)
                  IN  /\ information' =
                            [i \in 1..Len(state) |->
                                [data   |-> state[i].block.data,
                                 status |-> state[i].status]]
                      /\ blockchain' =
                            [i \in 1..Len(state) |-> state[i].block]
                      /\ res' = [op |-> "information", code |-> 200,
                                 success |-> TRUE,
                                 information |-> information']
                      /\ UNCHANGED <<verifier, clock>>
             ELSE /\ res' = [op |-> "information", code |-> 400,
                             success |-> FALSE, error |-> r.error]
                  /\ information' = <<>>
                  /\ UNCHANGED <<blockchain, verifier, clock>>

\* A handler that reports the inspector's output as returned but stores it
\* reversed.
InformationReportsUnreversed ==
    IF Len(blockchain) = 0
    THEN /\ res' = [op |-> "information", code |-> 404, success |-> FALSE,
                    error |-> "No blocks found"]
         /\ UNCHANGED <<blockchain, information, verifier, clock>>
    ELSE LET r == verifier_information(verifier, blockchain)
         IN  IF r.ok
             THEN LET state == Reverse(r.state)
                  IN  /\ information' =
                            [i \in 1..Len(r.state) |->
                                [data   |-> r.state[i].block.data,
                                 status |-> r.state[i].status]]
                      /\ blockchain' =
                            [i \in 1..Len(state) |-> state[i].block]
                      /\ res' = [op |-> "information", code |-> 200,
                                 success |-> TRUE,
                                 information |-> information']
                      /\ UNCHANGED <<verifier, clock>>
             ELSE /\ res' = [op |-> "information", code |-> 400,
                             success |-> FALSE, error |-> r.error]
                  /\ UNCHANGED <<blockchain, information, verifier, clock>>

\* app.get('/api/information')
Information ==
    IF Len(blockchain) = 0
    THEN /\ res' = [op |-> "information", code |-> 404, success |-> FALSE,
                    error |-> "No blocks found"]
         /\ UNCHANGED <<blockchain, information, verifier, clock>>
    ELSE LET r == verifier_information(verifier, blockchain)
         IN  IF r.ok
             THEN LET state == Reverse(r.state)
                  IN  /\ information' =
                            [i \in 1..Len(state) |->
                                [data   |-> state[i].block.data,
                                 status |-> state[i].status]]
                      /\ blockchain' =
                            [i \in 1..Len(state) |-> state[i].block]
                      /\ res' = [op |-> "information", code |-> 200,
                                 success |-> TRUE,
                                 information |-> information']
                      /\ UNCHANGED <<verifier, clock>>
             ELSE /\ res' = [op |-> "information", code |-> 400,
                             success |-> FALSE, error |-> r.error]
                  /\ UNCHANGED <<blockchain, information, verifier, clock>>

\* A tamper that also recomputes the block's hash over the new data.
TamperRehashes(index, newData) ==
    IF index < 0 \/ index >= Len(blockchain)
    THEN /\ res' = [op |-> "tamper", code |-> 400, success |-> FALSE,
                    error |-> "Invalid block index"]
         /\ UNCHANGED <<blockchain, information, verifier, clock>>
    ELSE /\ blockchain' =
               [blockchain EXCEPT
                   ![index + 1].data = newData,
                   ![index + 1].hash =
                       HashOf([blockchain[index + 1] EXCEPT !.data = newData])]
         /\ res' = [op |-> "tamper", code |-> 200, success |-> TRUE]
         /\ UNCHANGED <<information, verifier, clock>>

\* app.post('/api/tamper')
Tamper(index, newData) ==
    IF index < 0 \/ index >= Len(blockchain)
    THEN /\ res' = [op |-> "tamper", code |-> 400, success |-> FALSE,
                    error |-> "Invalid block index"]
         /\ UNCHANGED <<blockchain, information, verifier, clock>>
    ELSE /\ blockchain' = [blockchain EXCEPT ![index + 1].data = newData]
         /\ res' = [op |-> "tamper", code |-> 200, success |-> TRUE]
         /\ UNCHANGED <<information, verifier, clock>>

\* index < 0 || index >= blockchain.length for an index that is no integer:
\* null compares as 0, undefined as NaN (every comparison false).
OddIndexRejected(index, length) ==
    CASE index = "null"      -> 0 >= length
      [] index = "undefined" -> FALSE
      [] index = "0.5"       -> 0 >= length

\* app.post('/api/tamper') with an index that is no integer.  Past the
\* guard blockchain[index] is undefined and the assignment to its data
\* throws; express answers 500 without a JSON body.
TamperOddIndex(index, newData) ==
    /\ IF OddIndexRejected(index, Len(blockchain))
       THEN res' = [op |-> "tamper", code |-> 400, success |-> FALSE,
                    error |-> "Invalid block index"]
       ELSE res' = [op |-> "tamper", code |-> 500, success |-> FALSE,
                    error |-> "TypeError"]
    /\ UNCHANGED <<blockchain, information, verifier, clock>>

Next ==
    \/ Tick
    \/ \E data \in Data : Create(data)
    \/ Information
    \/ \E index \in Indexes, newData \in NewData : Tamper(index, newData)
    \/ \E index \in OddIndexes, newData \in NewData :
          TamperOddIndex(index, newData)

Spec == Init /\ [][Next]_vars

\* The same server when no block is ever tampered with: the only
\* /api/tamper requests are those without a usable index, which write
\* nothing.
NextNoTamper ==
    \/ Tick
    \/ \E data \in Data : Create(data)
    \/ Information
    \/ \E index \in OddIndexes, newData \in NewData :
          TamperOddIndex(index, newData)

SpecNoTamper == Init /\ [][NextNoTamper]_vars

---------------------------------------------------------------------------
(* Forgery: an out-of-band writer who knows the digest but not the secret *)

AttackerKey == "attacker-key"

ForgedData == {"x"}

\* The block at position index is replaced by one with data of the forger's
\* choice, a hash that is the digest of its fields, and a signature made
\* with the forger's own key or copied from the block it replaces.
Forge(index, data, ownKey) ==
    /\ index \in 0 .. Len(blockchain) - 1
    /\ LET old    == blockchain[index + 1]
           forged == Seal(AttackerKey, old.index, old.timestamp, data,
                          old.previousHash)
       IN  blockchain' =
               [blockchain EXCEPT ![index + 1] =
                   IF ownKey THEN forged
                   ELSE [forged EXCEPT !.signature = old.signature]]
    /\ UNCHANGED <<information, verifier, clock, res>>

\* The server with the forger in place of /api/tamper.
NextForgery ==
    \/ Tick
    \/ \E data \in Data : Create(data)
    \/ Information
    \/ \E index \in Indexes, data \in ForgedData, ownKey \in BOOLEAN :
          Forge(index, data, ownKey)

SpecForgery == Init /\ [][NextForgery]_vars

---------------------------------------------------------------------------
(* Vocabulary of the properties *)

\* The untampered-chain invariant of section 3.
UntamperedChain(secret, chain) ==
    \A i \in 1..Len(chain) :
        /\ chain[i].index = i - 1
        /\ chain[i].previousHash =
               (IF i = 1 THEN Sentinel ELSE chain[i - 1].hash)
        /\ SelfIntact(secret, chain[i])

\* chain is an untampered chain whose blocks at the positions of ks (and no
\* others) had their data changed to a different value, hash and signature
\* left as they were.
TamperedAt(secret, chain, ks) ==
    /\ ks \subseteq 0 .. Len(chain) - 1
    /\ \A i \in 1..Len(chain) :
           /\ chain[i].index = i - 1
           /\ chain[i].previousHash =
                  (IF i = 1 THEN Sentinel ELSE chain[i - 1].hash)
           /\ chain[i].signature = KeyedMAC(secret, chain[i].hash)
           /\ IF i - 1 \in ks
              THEN /\ chain[i].hash # HashOf(chain[i])
                   /\ \E d \in NewData :
                          chain[i].hash =
                              HashOf([chain[i] EXCEPT !.data = d])
              ELSE chain[i].hash = HashOf(chain[i])

AllValid(info) == \A i \in 1..Len(info) : info[i].status = Valid

\* The statuses single- and multi-point tampering are expected to produce.
ExpectedStatus(ks, i) ==
    IF i \in ks THEN Tampered
    ELSE IF \E k \in ks : k < i THEN Recovered
    ELSE Valid

Blocks(state) == [i \in 1..Len(state) |-> state[i].block]

---------------------------------------------------------------------------
(* C1 - single-point tamper *)

\* C1: when a valid chain of n blocks has block k's data changed (k < n-1)
\* and is then inspected, the reported statuses are Valid at every index
\* below k, Tampered at index k and Recovered at every index above k.
C1_SinglePointTamper ==
    [][\A k \in 0 .. MaxBlocks :
          (/\ Information
           /\ k < Len(blockchain) - 1
           /\ TamperedAt(verifier.secret, blockchain, {k}))
          => /\ res'.success
             /\ Len(information') = Len(blockchain)
             /\ \A i \in 0 .. Len(blockchain) - 1 :
                   information'[i + 1].status = ExpectedStatus({k}, i)]_vars

---------------------------------------------------------------------------
(* C2 - creation and inspection without tampering *)

\* C2: with no tampering, every inspection of a non-empty chain built by
\* block creations succeeds and reports Valid for every block.
C2_UntamperedAllValid ==
    [][(Information /\ Len(blockchain) > 0)
          => /\ res'.success
             /\ Len(information') = Len(blockchain)
             /\ AllValid(information')]_vars

---------------------------------------------------------------------------
(* C3 - multi-point tamper *)

\* C3: when a valid chain has the data of two blocks k1 < k2 changed and is
\* then inspected, the reported statuses are Tampered at k1 and k2,
\* Recovered at every other index above k1, and Valid below k1.
C3_MultiPointTamper ==
    [][\A k1, k2 \in 0 .. MaxBlocks :
          (/\ Information
           /\ k1 < k2
           /\ TamperedAt(verifier.secret, blockchain, {k1, k2}))
          => /\ res'.success
             /\ Len(information') = Len(blockchain)
             /\ \A i \in 0 .. Len(blockchain) - 1 :
                   information'[i + 1].status =
                       ExpectedStatus({k1, k2}, i)]_vars

---------------------------------------------------------------------------
(* C4 - re-inspection *)

\* C4: an /api/information call that directly follows a successful
\* /api/information call (no create or tamper in between) succeeds and
\* reports Valid for every block.
C4_ReinspectionAllValid ==
    [][(Information /\ res.op = "information" /\ res.success)
          => /\ res'.success
             /\ Len(information') = Len(blockchain)
             /\ AllValid(information')]_vars

---------------------------------------------------------------------------
(* C5 - idempotence of inspect *)

\* C5 as stated: inspecting the blocks returned by an inspection yields the
\* same blocks and the same statuses as that inspection.
C5_InspectIdempotentStatuses ==
    [][(Information /\ res'.success)
          => LET first  == verifier_information(verifier, blockchain)
                 second == verifier_information(verifier, Blocks(first.state))
             IN  /\ second.ok
                 /\ second.state = first.state]_vars

\* C5 amended: inspecting the blocks returned by an inspection yields the
\* same blocks, and status Valid for every one of them.
C5_InspectIdempotentBlocks ==
    [][(Information /\ res'.success)
          => LET first  == verifier_information(verifier, blockchain)
                 second == verifier_information(verifier, Blocks(first.state))
             IN  /\ second.ok
                 /\ Blocks(second.state) = Blocks(first.state)
                 /\ AllValid(second.state)]_vars

\* An inspection has answered for a chain of three blocks, one of them
\* tampered and one recovered.
C5_Witness ==
    /\ res.op = "information"
    /\ res.success
    /\ Len(information) >= 3
    /\ \E i \in 1..Len(information) : information[i].status = Tampered
    /\ \E i \in 1..Len(information) : information[i].status = Recovered

---------------------------------------------------------------------------
(* C6 - the chain produced by inspection *)

\* C6: the chain stored by a successful inspection satisfies the
\* untampered-chain invariant: sentinel at block 0, every previousHash the
\* hash of the block before, every hash and signature those of the block's
\* own fields.
C6_InspectedChainUntampered ==
    (res.op = "information" /\ res.success)
        => UntamperedChain(verifier.secret, blockchain)

---------------------------------------------------------------------------
(* C7 - canonical order *)

\* C7: in every reachable state the block stored at position i has index i.
C7_CanonicalOrder ==
    \A i \in 1..Len(blockchain) : blockchain[i].index = i - 1

---------------------------------------------------------------------------
(* C8 - inspection keeps the records *)

\* C8: a successful inspection stores and reports one entry per input
\* block, and the entry at position i has the index and the data of the
\* input block at position i.
C8_InspectionKeepsRecords ==
    [][(Information /\ res'.success)
          => /\ Len(blockchain') = Len(blockchain)
             /\ Len(information') = Len(blockchain)
             /\ \A i \in 1..Len(blockchain) :
                   /\ blockchain'[i].index = blockchain[i].index
                   /\ blockchain'[i].data = blockchain[i].data
                   /\ information'[i].data = blockchain[i].data]_vars

---------------------------------------------------------------------------
(* C9 - a created block is linked to the stored tail *)

\* C9: the block appended by a successful /api/create has index 0 and the
\* sentinel as previousHash when the stored chain is empty, and otherwise
\* the stored tail's index + 1 and the stored tail's current hash.
C9_CreateLinksToStoredTail ==
    [][\A data \in Data :
          (Create(data) /\ res'.success)
          => LET new == blockchain'[Len(blockchain')]
             IN  IF blockchain = <<>>
                 THEN new.index = 0 /\ new.previousHash = Sentinel
                 ELSE LET tail == blockchain[Len(blockchain)]
                      IN  /\ new.index = tail.index + 1
                          /\ new.previousHash = tail.hash]_vars

---------------------------------------------------------------------------
(* C10 - inspection fails on malformed chains only *)

---------------------------------------------------------------------------
(* C18 - what a tamper changes *)

\* C18: a successful /api/tamper(index, newData) sets the data of the
\* stored block at position index to newData and changes nothing else:
\* that block's other fields, every other block, the chain's length and
\* the information list stay as they were.
C18_TamperChangesOnlyData ==
    [][\A index \in Indexes, newData \in NewData :
          (res'.op = "tamper" /\ res'.success /\ Tamper(index, newData))
          => /\ Len(blockchain') = Len(blockchain)
             /\ information' = information
             /\ \A i \in 1..Len(blockchain) :
                   IF i = index + 1
                   THEN /\ blockchain'[i].data = newData
                        /\ blockchain'[i].index = blockchain[i].index
                        /\ blockchain'[i].timestamp = blockchain[i].timestamp
                        /\ blockchain'[i].previousHash =
                               blockchain[i].previousHash
                        /\ blockchain'[i].hash = blockchain[i].hash
                        /\ blockchain'[i].signature = blockchain[i].signature
                   ELSE blockchain'[i] = blockchain[i]]_vars

\* A tamper has succeeded and left a block whose hash no longer matches
\* its data.
C18_Witness ==
    /\ res.op = "tamper"
    /\ res.success
    /\ \E i \in 1..Len(blockchain) : blockchain[i].hash # HashOf(blockchain[i])

---------------------------------------------------------------------------
(* C20 - tamper with an invalid index *)

\* C20: /api/tamper with an index that is no position of the stored chain
\* (negative, >= the length, null, missing or a fraction) answers with the
\* failure 'Invalid block index' and leaves the stored chain unchanged.
C20_InvalidIndexRejected ==
    [][/\ \A index \in Indexes, newData \in NewData :
             (/\ Tamper(index, newData)
              /\ (index < 0 \/ index >= Len(blockchain)))
             => /\ ~res'.success
                /\ res'.error = "Invalid block index"
                /\ blockchain' = blockchain
       /\ \A index \in OddIndexes, newData \in NewData :
             TamperOddIndex(index, newData)
             => /\ ~res'.success
                /\ res'.error = "Invalid block index"
                /\ blockchain' = blockchain]_vars

---------------------------------------------------------------------------
(* C12 - no partial mutation on error *)

\* C12: whenever /api/create or /api/information answers with a failure,
\* the stored chain and the stored information list are what they were
\* before the request.
C12_NoMutationOnError ==
    [][((Information \/ \E data \in Data : Create(data)) /\ ~res'.success)
          => /\ blockchain' = blockchain
             /\ information' = information]_vars

\* An inspection has failed on a chain that an earlier inspection reported
\* on.
C12_Witness ==
    /\ res.op = "information"
    /\ ~res.success
    /\ Len(blockchain) >= 2
    /\ information # <<>>

---------------------------------------------------------------------------
(* C13 - the acceptance policy *)

\* C13: /api/create with empty data or data over the maximum size answers
\* with the failure InvalidInputError and appends no block.
C13_BadDataRejected ==
    [][\A data \in Data :
          ((Len(data) = 0 \/ Len(data) > MaxDataLen) /\ Create(data))
          => /\ ~res'.success
             /\ res'.error = "InvalidInputError"
             /\ blockchain' = blockchain]_vars

\* A create has been refused while the chain already holds a block.
C13_Witness ==
    /\ res.op = "create"
    /\ ~res.success
    /\ res.error = "InvalidInputError"
    /\ Len(blockchain) >= 1

---------------------------------------------------------------------------
(* C14 - inspecting the empty chain *)

\* C14: when no block has been created, the inspection request succeeds
\* with an empty result.
C14_EmptyChainInspected ==
    [][(Information /\ blockchain = <<>>)
          => /\ res'.success
             /\ res'.information = <<>>]_vars

---------------------------------------------------------------------------
(* C16 - what a create changes *)

\* C16: a successful create appends exactly the returned block at the end
\* of the stored chain: the length grows by 1, every block stored before is
\* unchanged and so is the information list.
C16_CreateAppendsOneBlock ==
    [][\A data \in Data :
          (res'.op = "create" /\ res'.success /\ Create(data))
          => /\ Len(blockchain') = Len(blockchain) + 1
             /\ blockchain'[Len(blockchain')] = res'.block
             /\ \A i \in 1..Len(blockchain) : blockchain'[i] = blockchain[i]
             /\ information' = information]_vars

\* A create has succeeded on a chain that already held two blocks.
C16_Witness ==
    /\ res.op = "create"
    /\ res.success
    /\ Len(blockchain) >= 3
    /\ blockchain[Len(blockchain)] = res.block

---------------------------------------------------------------------------
(* C15 - appends are serialized *)

\* The number of blocks the verifier has minted.
Minted == IF verifier.prior = <<>> THEN 0 ELSE verifier.prior[1].index + 1

\* C15: every handler runs as one atomic step, and in every reachable state
\* no two stored blocks have the same index or the same previousHash and
\* every block that was appended is still stored.
C15_AppendsSerialized ==
    /\ \A i, j \in 1..Len(blockchain) :
          i # j => /\ blockchain[i].index # blockchain[j].index
                   /\ blockchain[i].previousHash # blockchain[j].previousHash
    /\ Len(blockchain) = Minted

\* Three blocks are stored after creates, a tamper and an inspection.
C15_Witness ==
    /\ Len(blockchain) >= 3
    /\ information # <<>>
    /\ \E i \in 1..Len(blockchain) : blockchain[i].data = "b"

---------------------------------------------------------------------------
(* C19 - the information list and the stored chain *)

\* C19: after a successful /api/information the information list and the
\* stored chain have the same length and the same data at every position,
\* and a tamper with index i that follows changes the block whose data the
\* information list shows at position i.
C19_InformationMatchesChain ==
    [][/\ (res'.op = "information" /\ res'.success /\ Information)
          => /\ Len(information') = Len(blockchain')
             /\ \A i \in 1..Len(blockchain') :
                   information'[i].data = blockchain'[i].data
       /\ \A index \in Indexes, newData \in NewData :
             (/\ res.op = "information" /\ res.success
              /\ res'.op = "tamper" /\ res'.success
              /\ Tamper(index, newData))
             => /\ index + 1 \in 1..Len(information)
                /\ blockchain[index + 1].data = information[index + 1].data
                /\ blockchain'[index + 1].data = newData]_vars

\* An inspection has reported on a chain of three blocks whose data differ.
C19_Witness ==
    /\ res.op = "information"
    /\ res.success
    /\ Len(information) >= 3
    /\ \E i, j \in 1..Len(information) :
          information[i].data # information[j].data

---------------------------------------------------------------------------
(* C11 - forgery resistance *)

\* C11: every block whose stored signature is not the keyed MAC, under the
\* verifier's secret, of the digest of its own current fields is classified
\* Tampered by the inspection, and the entry reported for that block
\* carries status Tampered; this includes blocks whose hash is the digest
\* of their fields but whose signature was made without the secret.
C11_ForgedBlocksTampered ==
    [][(Information /\ Len(blockchain) > 0)
          => LET r == verifier_information(verifier, blockchain)
             IN  r.ok =>
                 /\ res'.success
                 /\ \A i \in 1..Len(blockchain) :
                       (blockchain[i].signature #
                            KeyedMAC(verifier.secret, HashOf(blockchain[i])))
                       => /\ r.state[i].status = Tampered
                          /\ \A j \in 1..Len(blockchain') :
                                (blockchain'[j].index = blockchain[i].index)
                                => information'[j].status = Tampered]_vars

\* An inspection has reported Tampered for a block with forged data, whose
\* hash the forger had made consistent.
C11_Witness ==
    /\ res.op = "information"
    /\ res.success
    /\ \E i \in 1..Len(information) :
          /\ information[i].data \in ForgedData
          /\ information[i].status = Tampered

---------------------------------------------------------------------------
(* C17 - the secret stays inside the verifier *)

BlockFields ==
    {"index", "timestamp", "data", "previousHash", "hash", "signature"}

\* The strings a client or a reader of the stored chain can see.  A
\* signature is the value of a one-way keyed function and shows nothing of
\* its key.
VisibleStrings ==
    {res.op}
    \cup (IF "error" \in DOMAIN res THEN {res.error} ELSE {})
    \cup (IF "block" \in DOMAIN res THEN {res.block.data} ELSE {})
    \cup (IF "information" \in DOMAIN res
          THEN {res.information[i].data : i \in 1..Len(res.information)}
               \cup {res.information[i].status :
                        i \in 1..Len(res.information)}
          ELSE {})
    \cup {blockchain[i].data : i \in 1..Len(blockchain)}
    \cup {information[i].data : i \in 1..Len(information)}

\* The same run under another secret: every signature made with the
\* verifier's secret is one made with the other secret.
OtherSecret == "another-key"

Rekey(b) ==
    [b EXCEPT !.signature =
        IF @[2] = verifier.secret THEN KeyedMAC(OtherSecret, @[3]) ELSE @]

RekeyChain(chain) == [i \in 1..Len(chain) |-> Rekey(chain[i])]

RekeyedVerifier ==
    [secret |-> OtherSecret, prior |-> RekeyChain(verifier.prior)]

\* Under the other secret the factory and the inspector answer with the
\* same outcome, data and statuses, and the same blocks but for the key of
\* their signatures.
SecretIndependent ==
    /\ \A data \in Data :
          LET r1 == create_block(verifier, data, clock)
              r2 == create_block(RekeyedVerifier, data, clock)
          IN  /\ r1.ok = r2.ok
              /\ r1.ok => r2.block = Rekey(r1.block)
              /\ ~r1.ok => r2.error = r1.error
    /\ LET r1 == verifier_information(verifier, blockchain)
           r2 == verifier_information(RekeyedVerifier,
                                      RekeyChain(blockchain))
       IN  /\ r1.ok = r2.ok
           /\ r1.ok =>
                 /\ Len(r2.state) = Len(r1.state)
                 /\ \A i \in 1..Len(r1.state) :
                       /\ r2.state[i].status = r1.state[i].status
                       /\ r2.state[i].block = Rekey(r1.state[i].block)
           /\ ~r1.ok => r2.error = r1.error

\* C17: in every reachable state the secret is no field of a response, of
\* a stored block or of the information list, responses and blocks carry
\* no field beyond their own, and a run under another secret answers every
\* request with the same outcome, statuses and data.
C17_SecretStaysInside ==
    /\ verifier.secret \notin VisibleStrings
    /\ DOMAIN res \subseteq
           {"op", "code", "success", "error", "block", "information"}
    /\ \A i \in 1..Len(blockchain) : DOMAIN blockchain[i] = BlockFields
    /\ \A i \in 1..Len(information) :
          DOMAIN information[i] = {"data", "status"}
    /\ SecretIndependent

\* A create has answered with a block signed under the secret, after an
\* inspection that found a tampered block.
C17_Witness ==
    /\ res.op = "create"
    /\ res.success
    /\ res.block.signature = KeyedMAC(verifier.secret, res.block.hash)
    /\ \E i \in 1..Len(information) : information[i].status = Tampered

====
